---- MODULE Spec2Model ----
(***************************************************************************)
(* Model of src/reader/dev-server.py: a socketserver.TCPServer on port     *)
(* 8080 whose handler, CORSRequestHandler, is http.server's                *)
(* SimpleHTTPRequestHandler with end_headers overridden to add five fixed  *)
(* headers and with a do_OPTIONS method.  The inherited library code       *)
(* (CPython 3.11 http/server.py, socketserver.py, posixpath.py) is         *)
(* modelled as it runs underneath the 37 lines of the script.              *)
(*                                                                         *)
(* Strings the code takes apart (the request line, the URL path, file      *)
(* system paths) are sequences of lexemes, each lexeme a TLA+ string:      *)
(* "/", ".", "?", a percent-escape such as "%2e", or a run of ordinary     *)
(* characters such as "a" or "js".                                         *)
(***************************************************************************)
EXTENDS Integers, Sequences, FiniteSets, TLC

VARIABLES pc, exitStatus, stdout, sigintAt, listeners, backlog, hstate, ctx,
          failures

vars == <<pc, exitStatus, stdout, sigintAt, listeners, backlog, hstate, ctx,
          failures>>

(***************************************************************************)
(* Bounds of the model.                                                    *)
(***************************************************************************)
\* Client connections that can be open at the same time.
MaxConns == 2
\* Longest generated URL path, in lexemes (specification SpecPaths).
MaxPathLen == 5

(***************************************************************************)
(* Generic string helpers (Python str methods on lexeme sequences).        *)
(***************************************************************************)
RECURSIVE TakeUntil(_, _)
\* s.split(ch, 1)[0]
TakeUntil(s, ch) ==
    IF s = <<>> \/ Head(s) = ch THEN <<>>
    ELSE <<Head(s)>> \o TakeUntil(Tail(s), ch)

RECURSIVE SplitOn(_, _)
\* s.split(ch): the pieces between occurrences of ch (empty pieces kept)
SplitOn(s, ch) ==
    IF s = <<>> THEN << <<>> >>
    ELSE LET rest == SplitOn(Tail(s), ch)
         IN  IF Head(s) = ch THEN << <<>> >> \o rest
             ELSE << <<Head(s)>> \o Head(rest) >> \o Tail(rest)

RECURSIVE JoinWith(_, _)
\* ch.join(pieces)
JoinWith(pieces, ch) ==
    IF pieces = <<>> THEN <<>>
    ELSE IF Len(pieces) = 1 THEN Head(pieces)
    ELSE Head(pieces) \o <<ch>> \o JoinWith(Tail(pieces), ch)

RECURSIVE FilterNonEmpty(_)
\* filter(None, words)
FilterNonEmpty(ws) ==
    IF ws = <<>> THEN <<>>
    ELSE IF Head(ws) = <<>> THEN FilterNonEmpty(Tail(ws))
    ELSE <<Head(ws)>> \o FilterNonEmpty(Tail(ws))

RECURSIVE LStrip(_, _)
\* s.lstrip(ch)
LStrip(s, ch) ==
    IF s # <<>> /\ Head(s) = ch THEN LStrip(Tail(s), ch) ELSE s

\* F applied to the value of e, e being evaluated once
Strict(e, F(_)) == CHOOSE r \in { F(v) : v \in {e} } : TRUE

StartsWith(s, prefix) ==
    /\ Len(s) >= Len(prefix)
    /\ SubSeq(s, 1, Len(prefix)) = prefix

EndsWith(s, ch) == s # <<>> /\ s[Len(s)] = ch

Last(s) == s[Len(s)]

ButLast(s) == SubSeq(s, 1, Len(s) - 1)

(***************************************************************************)
(* urllib.parse.unquote: every percent-escape becomes the character it     *)
(* encodes; any other lexeme is left as it is.                             *)
(***************************************************************************)
UnquoteLexeme(x) ==
    CASE x = "%2e" -> "."
      [] x = "%2f" -> "/"
      [] x = "%3f" -> "?"
      [] OTHER     -> x

unquote(s) == [i \in 1..Len(s) |-> UnquoteLexeme(s[i])]

(***************************************************************************)
(* posixpath.normpath                                                      *)
(***************************************************************************)
curdir == <<".">>
pardir == <<".", ".">>

initial_slashes(path) ==
    IF ~StartsWith(path, <<"/">>) THEN 0
    ELSE IF StartsWith(path, <<"/", "/">>) /\ ~StartsWith(path, <<"/", "/", "/">>)
         THEN 2
    ELSE 1

RECURSIVE NormComps(_, _, _)
\* the loop of normpath over the components, new_comps accumulated in acc
NormComps(comps, acc, slashes) ==
    IF comps = <<>> THEN acc
    ELSE LET comp == Head(comps)
         IN  IF comp = <<>> \/ comp = curdir
                THEN NormComps(Tail(comps), acc, slashes)
             ELSE IF \/ comp # pardir
                     \/ (slashes = 0 /\ acc = <<>>)
                     \/ (acc # <<>> /\ Last(acc) = pardir)
                THEN NormComps(Tail(comps), Append(acc, comp), slashes)
             ELSE IF acc # <<>>
                THEN NormComps(Tail(comps), ButLast(acc), slashes)
             ELSE NormComps(Tail(comps), acc, slashes)

normpath(path) ==
    IF path = <<>> THEN curdir
    ELSE LET slashes == initial_slashes(path)
             comps   == NormComps(SplitOn(path, "/"), <<>>, slashes)
             joined  == JoinWith(comps, "/")
             full    == [i \in 1..slashes |-> "/"] \o joined
         IN  IF full = <<>> THEN curdir ELSE full

(***************************************************************************)
(* The file system the server runs on.  A node's place is the sequence of  *)
(* its path components; the process is started in /r, so /a and /s lie     *)
(* outside the served tree and /a has the same name as a file inside it.   *)
(***************************************************************************)
FSNode(at, kind, data, mtime, perm) ==
    [at |-> at, kind |-> kind, data |-> data, mtime |-> mtime, perm |-> perm]

FSNodes ==
    { FSNode(<<>>, "dir", "", 0, TRUE),
      FSNode(<< <<"a">> >>, "file", "outside:/a", 2, TRUE),
      FSNode(<< <<"s">> >>, "file", "outside:/s", 2, TRUE),
      FSNode(<< <<"r">> >>, "dir", "", 0, TRUE),
      FSNode(<< <<"r">>, <<"a">> >>, "file", "root:/a", 2, TRUE),
      FSNode(<< <<"r">>, <<"a", "a">> >>, "dir", "", 0, TRUE),
      FSNode(<< <<"r">>, <<"a", "a">>, <<"a">> >>, "file", "root:/aa/a", 2, TRUE),
      FSNode(<< <<"r">>, <<"app", ".", "js">> >>, "file", "root:/app.js", 2, TRUE),
      FSNode(<< <<"r">>, <<"e">> >>, "dir", "", 0, TRUE),
      FSNode(<< <<"r">>, <<"e">>, <<"index", ".", "html">> >>, "file",
             "root:/e/index.html", 2, TRUE),
      FSNode(<< <<"r">>, <<"u">> >>, "file", "root:/u", 2, FALSE),
      FSNode(<< <<"r">>, <<"p">> >>, "dir", "", 0, FALSE) }

Nowhere == FSNode(<<>>, "none", "", 0, FALSE)

Exists(at) == \E n \in FSNodes : n.at = at

NodeAt(at) == IF Exists(at) THEN CHOOSE n \in FSNodes : n.at = at ELSE Nowhere

RECURSIVE Walk(_, _)
\* the kernel's resolution of the components left, starting at directory cur
Walk(cur, comps) ==
    IF NodeAt(cur).kind = "none" THEN Nowhere
    ELSE IF comps = <<>> THEN NodeAt(cur)
    ELSE IF NodeAt(cur).kind # "dir" THEN Nowhere
    ELSE LET comp == Head(comps)
         IN  IF comp = curdir THEN Walk(cur, Tail(comps))
             ELSE IF comp = pardir
                THEN Walk(IF cur = <<>> THEN cur ELSE ButLast(cur), Tail(comps))
             ELSE Walk(Append(cur, comp), Tail(comps))

\* the node an absolute path string names; a trailing slash needs a directory
Resolve(path) ==
    LET n == Walk(<<>>, FilterNonEmpty(SplitOn(path, "/")))
    IN  IF EndsWith(path, "/") /\ n.kind # "dir" THEN Nowhere ELSE n

isdir(path) == Resolve(path).kind = "dir"

isfile(path) == Resolve(path).kind = "file"

\* open(path, 'rb') succeeds
CanOpen(path) == Resolve(path).kind = "file" /\ Resolve(path).perm

\* os.listdir(path) succeeds
CanList(path) == Resolve(path).kind = "dir" /\ Resolve(path).perm

\* os.getcwd() of the process: line 28 stays in the start directory
directory == <<"/", "r">>

\* os.path.join(path, word)
join(path, word) ==
    IF StartsWith(word, <<"/">>) THEN word
    ELSE IF path = <<>> \/ EndsWith(path, "/") THEN path \o word
    ELSE path \o <<"/">> \o word

(***************************************************************************)
(* SimpleHTTPRequestHandler.translate_path                                 *)
(***************************************************************************)
\* a loop that skips "." alone and joins ".." like a name
IgnoresOnlyCurdir(word) == word = curdir

\* a component the loop over the words skips (os.path.dirname(word) is
\* empty for every word, the path having been split on "/")
IgnoredWord(word) == word \in {curdir, pardir}

RECURSIVE JoinWords(_, _)
JoinWords(path, words) ==
    IF words = <<>> THEN path
    ELSE IF IgnoredWord(Head(words)) THEN JoinWords(path, Tail(words))
    ELSE JoinWords(join(path, Head(words)), Tail(words))

translate_path(urlpath) ==
    LET p1 == TakeUntil(TakeUntil(urlpath, "?"), "#")
        trailing_slash == EndsWith(p1, "/")
        p2 == normpath(unquote(p1))
        words == FilterNonEmpty(SplitOn(p2, "/"))
        p3 == JoinWords(directory, words)
    IN  IF trailing_slash THEN p3 \o <<"/">> ELSE p3

(***************************************************************************)
(* posixpath.splitext and SimpleHTTPRequestHandler.guess_type              *)
(***************************************************************************)
RECURSIVE LastIndexOf(_, _)
LastIndexOf(s, ch) ==
    IF s = <<>> THEN 0
    ELSE IF Last(s) = ch THEN Len(s)
    ELSE LastIndexOf(ButLast(s), ch)

\* a guess_type that knows no extension
guess_type_unknown(path) == "application/octet-stream"

\* the extension: from the last dot of the last component, unless only dots
\* come before it in that component
splitext_ext(path) ==
    LET sepIndex == LastIndexOf(path, "/")
        dotIndex == LastIndexOf(path, ".")
    IN  IF dotIndex > sepIndex
           /\ \E i \in (sepIndex + 1)..(dotIndex - 1) : path[i] # "."
        THEN SubSeq(path, dotIndex, Len(path))
        ELSE <<>>

guess_type(path) ==
    LET ext == splitext_ext(path)
    IN  CASE ext = <<".", "gz">>   -> "application/gzip"
          [] ext = <<".", "js">>   -> "text/javascript"
          [] ext = <<".", "html">> -> "text/html"
          [] OTHER                 -> "application/octet-stream"

(***************************************************************************)
(* The request a client sends and the state of the handler serving it.     *)
(***************************************************************************)
GET     == <<"GET">>
HEAD    == <<"HEAD">>
OPTIONS == <<"OPTIONS">>
POST    == <<"POST">>

HTTP09 == <<"HTTP/", "0", ".", "9">>
HTTP10 == <<"HTTP/", "1", ".", "0">>
HTTP11 == <<"HTTP/", "1", ".", "1">>
HTTP20 == <<"HTTP/", "2", ".", "0">>

\* BaseHTTPRequestHandler.default_request_version and .protocol_version
default_request_version == HTTP09
protocol_version == HTTP10

NoBody == [kind |-> "none", data |-> ""]
FileBody(data) == [kind |-> "file", data |-> data]
ErrorBody(code) == [kind |-> "error", data |-> "error page"]
ListingBody == [kind |-> "listing", data |-> "directory listing"]

\* the header block of a request: whether it overflows the parser's limits
\* ("line": a line over 65536 bytes, "count": over 100 lines), and the
\* conditional headers send_head reads
HeaderBlock(overflow, hasIms, ims, inm) ==
    [overflow |-> overflow, hasIms |-> hasIms, ims |-> ims, inm |-> inm]

Request(line, oversize, hdrs, writeFails) ==
    [line |-> line, oversize |-> oversize, hdrs |-> hdrs,
     writeFails |-> writeFails]

\* the handler object after setup(), before the request line is read
NewHandler(req) ==
    [ver      |-> default_request_version,
     command  |-> <<>>,
     path     |-> <<>>,
     hdrs     |-> req.hdrs,
     parsed   |-> FALSE,
     status   |-> 0,
     headers  |-> <<>>,
     flushed  |-> FALSE,
     body     |-> NoBody,
     touched  |-> {}]

(***************************************************************************)
(* BaseHTTPRequestHandler: building a response.  With request_version      *)
(* 'HTTP/0.9' neither a status line nor any header is written.             *)
(***************************************************************************)
send_response_only(h, code) ==
    Strict(h, LAMBDA self :
        IF self.ver # HTTP09 THEN [self EXCEPT !.status = code] ELSE self)

send_header(h, keyword, value) ==
    Strict(h, LAMBDA self :
        IF self.ver # HTTP09
        THEN [self EXCEPT !.headers = Append(@, <<keyword, value>>)]
        ELSE self)

send_response(h, code) ==
    send_header(
        send_header(send_response_only(h, code), "Server", "SimpleHTTP/0.6"),
        "Date", "now")

\* BaseHTTPRequestHandler.end_headers: the blank line, then flush_headers
base_end_headers(h) ==
    Strict(h, LAMBDA self :
        IF self.ver # HTTP09 THEN [self EXCEPT !.flushed = TRUE] ELSE self)

\* the headers CORSRequestHandler.end_headers adds, in order, but for the
\* last one
FourCORSHeaders ==
    << <<"Access-Control-Allow-Origin", "*">>,
       <<"Access-Control-Allow-Methods", "GET, POST, OPTIONS">>,
       <<"Access-Control-Allow-Headers", "Content-Type">>,
       <<"Cross-Origin-Embedder-Policy", "require-corp">> >>

\* the headers CORSRequestHandler.end_headers adds, in order
CORSHeaders ==
    << <<"Access-Control-Allow-Origin", "*">>,
       <<"Access-Control-Allow-Methods", "GET, POST, OPTIONS">>,
       <<"Access-Control-Allow-Headers", "Content-Type">>,
       <<"Cross-Origin-Embedder-Policy", "require-corp">>,
       <<"Cross-Origin-Opener-Policy", "same-origin">> >>

RECURSIVE SendHeaders(_, _)
SendHeaders(h, kvs) ==
    IF kvs = <<>> THEN h
    ELSE SendHeaders(send_header(h, Head(kvs)[1], Head(kvs)[2]), Tail(kvs))

\* the end_headers of the base class, not overridden
inherited_end_headers(h) == base_end_headers(h)

\* CORSRequestHandler.end_headers
end_headers(h) == base_end_headers(SendHeaders(h, CORSHeaders))

\* the codes send_error sends without a body
BodilessCodes == {204, 205, 304}

send_error(h, code) ==
    Strict(h, LAMBDA self :
        LET h1 == send_header(send_response(self, code), "Connection", "close")
            withBody == code >= 200 /\ code \notin BodilessCodes
            h2 == IF withBody
                  THEN send_header(
                           send_header(h1, "Content-Type",
                                       "text/html;charset=utf-8"),
                           "Content-Length", "len(body)")
                  ELSE h1
            h3 == end_headers(h2)
        IN  IF self.command # HEAD /\ withBody
            THEN [h3 EXCEPT !.body = ErrorBody(code)]
            ELSE h3)

(***************************************************************************)
(* BaseHTTPRequestHandler.parse_request                                    *)
(***************************************************************************)
Digits == {"0", "1", "2", "3", "4", "5", "6", "7", "8", "9"}

\* str.isdigit() of a component of the version number
IsDigits(component) ==
    /\ component # <<>>
    /\ \A i \in 1..Len(component) : component[i] \in Digits

DigitValue(d) == CHOOSE n \in 0..9 : ToString(n) = d

RECURSIVE IntOf(_)
\* int(component)
IntOf(component) ==
    IF component = <<>> THEN 0
    ELSE 10 * IntOf(ButLast(component)) + DigitValue(Last(component))

\* the try block: the word is HTTP/<digits>.<digits>
ValidVersion(version) ==
    /\ StartsWith(version, <<"HTTP/">>)
    /\ LET version_number == SplitOn(Tail(version), ".")
       IN  /\ Len(version_number) = 2
           /\ \A i \in 1..2 : IsDigits(version_number[i])
           /\ \A i \in 1..2 : Len(version_number[i]) <= 10

VersionNumber(version) ==
    LET version_number == SplitOn(Tail(version), ".")
    IN  <<IntOf(version_number[1]), IntOf(version_number[2])>>

parse_request(h, req) ==
    LET words == req.line
        h0 == [h EXCEPT !.command = <<>>, !.ver = default_request_version]
    IN  IF Len(words) = 0 THEN h0
        ELSE IF Len(words) >= 3 /\ ~ValidVersion(Last(words))
            THEN send_error(h0, 400)
        ELSE IF Len(words) >= 3 /\ VersionNumber(Last(words))[1] >= 2
            THEN send_error(h0, 505)
        ELSE LET h1 == IF Len(words) >= 3
                       THEN [h0 EXCEPT !.ver = Last(words)]
                       ELSE h0
             IN  IF ~(2 <= Len(words) /\ Len(words) <= 3)
                    THEN send_error(h1, 400)
                 ELSE IF Len(words) = 2 /\ words[1] # GET
                    THEN send_error(h1, 400)
                 ELSE LET path == words[2]
                          h2 == [h1 EXCEPT
                                   !.command = words[1],
                                   !.path = IF StartsWith(path, <<"/", "/">>)
                                            THEN <<"/">> \o LStrip(path, "/")
                                            ELSE path]
                      IN  IF req.hdrs.overflow # "none"
                          THEN send_error(h2, 431)
                          ELSE [h2 EXCEPT !.parsed = TRUE]

(***************************************************************************)
(* SimpleHTTPRequestHandler: send_head, list_directory, do_GET, do_HEAD    *)
(***************************************************************************)
Touch(h, paths) == [h EXCEPT !.touched = @ \cup paths]

\* what send_head returns: the handler and the file object f to copy
HeadResult(h, f) == [h |-> h, f |-> f]

\* urllib.parse.urlsplit(self.path).path
urlsplit_path(urlpath) == TakeUntil(TakeUntil(urlpath, "#"), "?")

\* the part of send_head from guess_type on, for a path that is to be opened
send_file_head(h, path) ==
    Strict(h, LAMBDA self :
        LET ctype == guess_type(path)
        IN  IF EndsWith(path, "/")
               THEN HeadResult(send_error(self, 404), NoBody)
            ELSE IF ~CanOpen(path)
               THEN HeadResult(send_error(Touch(self, {path}), 404), NoBody)
            ELSE LET h1 == Touch(self, {path})
                     fs == Resolve(path)
                 IN  IF /\ self.hdrs.hasIms
                        /\ ~self.hdrs.inm
                        /\ fs.mtime <= self.hdrs.ims
                     THEN HeadResult(end_headers(send_response(h1, 304)),
                                     NoBody)
                     ELSE HeadResult(
                              end_headers(
                                  send_header(
                                      send_header(
                                          send_header(send_response(h1, 200),
                                                      "Content-type", ctype),
                                          "Content-Length", "st_size"),
                                      "Last-Modified", "st_mtime")),
                              FileBody(fs.data)))

list_directory(h, path) ==
    IF ~CanList(path)
    THEN HeadResult(send_error(Touch(h, {path}), 404), NoBody)
    ELSE HeadResult(
             end_headers(
                 send_header(
                     send_header(send_response(Touch(h, {path}), 200),
                                 "Content-type", "text/html; charset=utf-8"),
                     "Content-Length", "len(encoded)")),
             ListingBody)

index_html == <<"index", ".", "html">>
index_htm  == <<"index", ".", "htm">>

send_head(h) ==
    Strict(translate_path(h.path), LAMBDA path :
    LET h1 == Touch(h, {path})
    IN  IF isdir(path)
        THEN IF ~EndsWith(urlsplit_path(h.path), "/")
             THEN HeadResult(
                      end_headers(
                          send_header(
                              send_header(send_response(h1, 301),
                                          "Location", "path/"),
                              "Content-Length", "0")),
                      NoBody)
             ELSE IF isfile(join(path, index_html))
                THEN send_file_head(Touch(h1, {join(path, index_html)}),
                                    join(path, index_html))
             ELSE IF isfile(join(path, index_htm))
                THEN send_file_head(
                         Touch(h1, {join(path, index_html),
                                    join(path, index_htm)}),
                         join(path, index_htm))
             ELSE list_directory(
                      Touch(h1, {join(path, index_html), join(path, index_htm)}),
                      path)
        ELSE send_file_head(h1, path))

\* copyfile(f, self.wfile) when send_head returned a file
do_GET(h) ==
    Strict(send_head(h), LAMBDA r :
        IF r.f.kind # "none" THEN [r.h EXCEPT !.body = r.f] ELSE r.h)

do_HEAD(h) == send_head(h).h

\* a preflight answered with another status
do_OPTIONS_204(h) == end_headers(send_response(h, 204))

\* CORSRequestHandler.do_OPTIONS
do_OPTIONS(h) == end_headers(send_response(h, 200))

\* a handler class that has a do_POST as well
MethodsWithPost == {GET, HEAD, OPTIONS, POST}

\* the commands for which the handler class has a do_ method
Methods == {GET, HEAD, OPTIONS}

(***************************************************************************)
(* BaseHTTPRequestHandler.handle_one_request                               *)
(***************************************************************************)
handle_one_request(req) ==
    LET h0 == NewHandler(req)
    IN  IF req.oversize
        THEN send_error([h0 EXCEPT !.ver = <<>>, !.command = <<>>], 414)
        ELSE Strict(parse_request(h0, req), LAMBDA h1 :
                 IF ~h1.parsed THEN h1
                 ELSE IF h1.command \notin Methods THEN send_error(h1, 501)
                 ELSE IF h1.command = GET THEN do_GET(h1)
                 ELSE IF h1.command = HEAD THEN do_HEAD(h1)
                 ELSE do_OPTIONS(h1))

\* whether the handler wrote anything to the socket
Wrote(h) == h.flushed \/ h.body.kind # "none"

\* the handler raised: a write to a connection the peer has reset
Raised(h, req) == req.writeFails /\ Wrote(h)

\* what is kept of one handled request: the request, what parse_request made
\* of it, what reached the client (status 0: no status line), the file
\* system paths the handler passed to the kernel, and whether it raised
Context(req) ==
    Strict(handle_one_request(req), LAMBDA h :
    LET raised == Raised(h, req)
    IN  [req      |-> req,
         parsed   |-> h.parsed,
         command  |-> h.command,
         path     |-> h.path,
         ver      |-> h.ver,
         status   |-> IF raised \/ ~h.flushed THEN 0 ELSE h.status,
         headers  |-> IF raised \/ ~h.flushed THEN <<>> ELSE h.headers,
         body     |-> IF raised THEN NoBody ELSE h.body,
         touched  |-> h.touched,
         raised   |-> raised])

NoContext == [idle |-> TRUE]

(***************************************************************************)
(* The requests clients send.                                              *)
(***************************************************************************)
NoHeaders == HeaderBlock("none", FALSE, 0, FALSE)

\* header blocks: none; If-Modified-Since before and after the files' mtime;
\* the latter with If-None-Match; a header line too long; too many headers
HeaderBlocks ==
    { NoHeaders,
      HeaderBlock("none", TRUE, 1, FALSE),
      HeaderBlock("none", TRUE, 3, FALSE),
      HeaderBlock("none", TRUE, 3, TRUE),
      HeaderBlock("line", FALSE, 0, FALSE),
      HeaderBlock("count", FALSE, 0, FALSE) }

Commands == {GET, HEAD, OPTIONS, POST}

\* last words of a request line: versions, and words that are none
Versions ==
    { HTTP09, HTTP10, HTTP11, HTTP20,
      <<"FTP/", "1", ".", "1">>, <<"HTTP/", "1">> }

SamplePaths ==
    { <<"/", "app", ".", "js">>,
      <<"/", "app", ".", "js", "?", "v">>,
      <<"/", "nope", ".", "txt">>,
      <<"/", ".", ".", "/", "a">>,
      <<"/", "%2e", "%2e", "%2f", "s">>,
      <<"/", "/", "a", "a">>,
      <<"/", "a", "a", "/">>,
      <<"/", "e", "/">>,
      <<"/", "u">>,
      <<"/", "p", "/">> }

RequestLines ==
    { <<c, p>> : c \in Commands, p \in SamplePaths }
    \cup { <<c, p, v>> : c \in Commands, p \in SamplePaths, v \in Versions }
    \cup { <<>>, <<GET>>, <<GET, <<"/", "a">>, <<"x">>, HTTP11>> }

Requests ==
    { Request(l, FALSE, hb, FALSE) : l \in RequestLines, hb \in HeaderBlocks }
    \cup { Request(l, FALSE, NoHeaders, TRUE) : l \in RequestLines }
    \cup { Request(<<>>, TRUE, NoHeaders, w) : w \in BOOLEAN }

\* one request of each kind of outcome: a file served, a missing path, a
\* path climbing out of the root, an unsupported method, a preflight, a
\* malformed line, a silent client, a client that resets the connection
FewRequests ==
    { Request(<<GET, <<"/", "app", ".", "js">>, HTTP11>>, FALSE, NoHeaders, FALSE),
      Request(<<GET, <<"/", "nope", ".", "txt">>, HTTP11>>, FALSE, NoHeaders, FALSE),
      Request(<<GET, <<"/", "%2e", "%2e", "%2f", "s">>, HTTP11>>, FALSE, NoHeaders, FALSE),
      Request(<<POST, <<"/", "a">>, HTTP11>>, FALSE, NoHeaders, FALSE),
      Request(<<OPTIONS, <<"/", "a">>, HTTP11>>, FALSE, NoHeaders, FALSE),
      Request(<<GET>>, FALSE, NoHeaders, FALSE),
      Request(<<>>, FALSE, NoHeaders, FALSE),
      Request(<<GET, <<"/", "app", ".", "js">>, HTTP11>>, FALSE, NoHeaders, TRUE) }

\* the lexemes generated paths are made of
PathAlphabet == {"/", ".", "a", "%2e", "%2f"}

GeneratedPaths == UNION { [1..n -> PathAlphabet] : n \in 1..MaxPathLen }

PathRequests ==
    { Request(<<c, p, HTTP11>>, FALSE, NoHeaders, FALSE) :
          c \in {GET, HEAD}, p \in GeneratedPaths }

(***************************************************************************)
(* The processes: two instances of the script, and the clients'            *)
(* connections to port 8080.                                               *)
(***************************************************************************)
Procs == {"first", "second"}

Conns == 1..MaxConns

\* exit status of a process still running
Running == 0 - 1

\* where a process is while its listening socket exists
BoundPcs == {"print1", "print2", "print3", "serve", "busy", "except", "closing"}

\* where a process is inside httpd.serve_forever()
ServePcs == {"serve", "busy"}

StartupLines ==
    << "Development server running at http://localhost:8080/",
       "CORS headers enabled for ES6 modules",
       "Press Ctrl+C to stop" >>

StoppedLine == "Server stopped"

Init ==
    /\ pc = [p \in Procs |-> "off"]
    /\ exitStatus = [p \in Procs |-> Running]
    /\ stdout = [p \in Procs |-> <<>>]
    /\ sigintAt = [p \in Procs |-> "never"]
    /\ listeners = {}
    /\ backlog = <<>>
    /\ hstate = [c \in Conns |-> "closed"]
    /\ ctx = [c \in Conns |-> NoContext]
    /\ failures = {}

\* the process is started (python3 dev-server.py)
Start(p) ==
    /\ pc[p] = "off"
    /\ pc' = [pc EXCEPT ![p] = "chdir"]
    /\ UNCHANGED <<exitStatus, stdout, sigintAt, listeners, backlog, hstate,
                   ctx, failures>>

\* line 28: os.chdir('.')
Chdir(p) ==
    /\ pc[p] = "chdir"
    /\ pc' = [pc EXCEPT ![p] = "bind"]
    /\ UNCHANGED <<exitStatus, stdout, sigintAt, listeners, backlog, hstate,
                   ctx, failures>>

\* a socket bound with SO_REUSEPORT set
BindAlwaysSucceeds(p) == TRUE

\* socket.bind(("", PORT)) of TCPServer.server_bind succeeds:
\* allow_reuse_address and allow_reuse_port are False
BindSucceeds(p) == listeners = {}

\* every connection that has not reached "responded" yet is reset
ResetConns(states) ==
    [c \in Conns |-> IF hstate[c] \in states THEN "closed" ELSE hstate[c]]

\* line 30: TCPServer(("", PORT), CORSRequestHandler) binds and listens, or
\* raises OSError, which nothing catches: traceback, exit status 1
Bind(p) ==
    /\ pc[p] = "bind"
    /\ IF BindSucceeds(p)
       THEN /\ listeners' = listeners \cup {p}
            /\ pc' = [pc EXCEPT ![p] = "print1"]
            /\ UNCHANGED exitStatus
       ELSE /\ pc' = [pc EXCEPT ![p] = "exited"]
            /\ exitStatus' = [exitStatus EXCEPT ![p] = 1]
            /\ UNCHANGED listeners
    /\ UNCHANGED <<stdout, sigintAt, backlog, hstate, ctx, failures>>

\* lines 31-33: the three startup lines, then line 35 enters serve_forever
PrintStartup(p) ==
    /\ pc[p] \in {"print1", "print2", "print3"}
    /\ stdout' = [stdout EXCEPT ![p] = Append(@, StartupLines[Len(@) + 1])]
    /\ pc' = [pc EXCEPT ![p] = CASE pc[p] = "print1" -> "print2"
                                 [] pc[p] = "print2" -> "print3"
                                 [] pc[p] = "print3" -> "serve"]
    /\ UNCHANGED <<exitStatus, sigintAt, listeners, backlog, hstate, ctx,
                   failures>>

\* a client's connection is completed by the kernel and queued on the
\* listening socket; connections are numbered like file descriptors, the
\* lowest free number first
Connect(c) ==
    /\ listeners # {}
    /\ hstate[c] = "closed"
    /\ \A d \in Conns : hstate[d] = "closed" => c <= d
    /\ hstate' = [hstate EXCEPT ![c] = "queued"]
    /\ backlog' = Append(backlog, c)
    /\ UNCHANGED <<pc, exitStatus, stdout, sigintAt, listeners, ctx,
                   failures>>

\* process_request of a server with ThreadingMixIn: returns at once
threaded_process_request(p) == "serve"

\* where BaseServer.process_request leaves the serve loop while the handler
\* runs: inside finish_request, on the loop's own thread
process_request(p) == "busy"

\* serve_forever: select() reports the socket readable, get_request()
\* accepts the first queued connection, process_request() handles it
Accept(p) ==
    /\ pc[p] = "serve"
    /\ p \in listeners
    /\ backlog # <<>>
    /\ hstate' = [hstate EXCEPT ![Head(backlog)] = "handling"]
    /\ backlog' = Tail(backlog)
    /\ pc' = [pc EXCEPT ![p] = process_request(p)]
    /\ UNCHANGED <<exitStatus, stdout, sigintAt, listeners, ctx, failures>>

\* how a handled request failed, if it did: the handler raised, the reply
\* is an error (a status of 400 or more, or an error page without a status
\* line), or nothing at all was sent
FailureKinds(cx) ==
    IF cx.raised THEN {"raised"}
    ELSE IF cx.status >= 400 \/ cx.body.kind = "error" THEN {"error"}
    ELSE IF cx.status = 0 /\ cx.body.kind = "none" THEN {"silent"}
    ELSE {}

\* the handler reads the request the client sent and answers it
HandleFrom(c, requests) ==
    /\ hstate[c] = "handling"
    /\ \E req \in requests :
          /\ ctx' = [ctx EXCEPT ![c] = Context(req)]
    /\ hstate' = [hstate EXCEPT ![c] = "responded"]
    /\ UNCHANGED <<pc, exitStatus, stdout, sigintAt, listeners, backlog,
                   failures>>

Handle(c) == HandleFrom(c, FewRequests)

HandleAny(c) == HandleFrom(c, Requests)

HandlePath(c) == HandleFrom(c, PathRequests)

\* an exception of the handler leaves the serve loop
ExceptionPropagates == FALSE

\* _handle_request_noblock: except Exception: handle_error(); shutdown_request()
ExceptionCaught == TRUE

\* the handler returns or raises; shutdown_request closes the connection and
\* the serve loop goes back to select()
Finish(p, c) ==
    /\ hstate[c] = "responded"
    /\ p \in listeners
    /\ pc[p] \in ServePcs
    /\ hstate' = [hstate EXCEPT ![c] = "closed"]
    /\ ctx' = [ctx EXCEPT ![c] = NoContext]
    /\ failures' = failures \cup FailureKinds(ctx[c])
    /\ IF ctx[c].raised /\ ~ExceptionCaught
       THEN /\ pc' = [pc EXCEPT ![p] = "exited"]
            /\ exitStatus' = [exitStatus EXCEPT ![p] = 1]
            /\ listeners' = listeners \ {p}
       ELSE /\ pc' = [pc EXCEPT ![p] = "serve"]
            /\ UNCHANGED <<exitStatus, listeners>>
    /\ UNCHANGED <<stdout, sigintAt, backlog>>

\* SIGINT is delivered to the process: KeyboardInterrupt is raised where the
\* main thread is.  Inside the try of lines 34-37 it is caught (the request
\* in hand is shut down by _handle_request_noblock's bare except); anywhere
\* else nothing catches it: the with statement closes the socket and the
\* interpreter ends the process with the status of a SIGINT death.
Interrupt(p) ==
    /\ pc[p] \notin {"off", "exited"}
    /\ sigintAt' = [sigintAt EXCEPT ![p] = IF @ = "never" THEN pc[p] ELSE @]
    /\ IF pc[p] \in ServePcs
       THEN /\ pc' = [pc EXCEPT ![p] = "except"]
            /\ hstate' = ResetConns({"handling", "responded"})
            /\ ctx' = [c \in Conns |-> NoContext]
            /\ UNCHANGED <<exitStatus, listeners, backlog>>
       ELSE /\ pc' = [pc EXCEPT ![p] = "exited"]
            /\ exitStatus' = [exitStatus EXCEPT ![p] = 130]
            /\ listeners' = listeners \ {p}
            /\ IF p \in listeners /\ listeners = {p}
               THEN /\ hstate' = ResetConns({"queued"})
                    /\ backlog' = <<>>
               ELSE UNCHANGED <<hstate, backlog>>
            /\ UNCHANGED ctx
    /\ UNCHANGED <<stdout, failures>>

\* line 37: print("\n Server stopped")
PrintStopped(p) ==
    /\ pc[p] = "except"
    /\ stdout' = [stdout EXCEPT ![p] = Append(@, StoppedLine)]
    /\ pc' = [pc EXCEPT ![p] = "closing"]
    /\ UNCHANGED <<exitStatus, sigintAt, listeners, backlog, hstate, ctx,
                   failures>>

\* the with statement of line 30 ends: server_close(); the script ends
Close(p) ==
    /\ pc[p] = "closing"
    /\ pc' = [pc EXCEPT ![p] = "exited"]
    /\ exitStatus' = [exitStatus EXCEPT ![p] = 0]
    /\ listeners' = listeners \ {p}
    /\ IF listeners = {p}
       THEN /\ hstate' = ResetConns({"queued"})
            /\ backlog' = <<>>
       ELSE UNCHANGED <<hstate, backlog>>
    /\ UNCHANGED <<stdout, sigintAt, ctx, failures>>

Next ==
    \/ \E p \in Procs : Start(p)
    \/ \E p \in Procs : Chdir(p)
    \/ \E p \in Procs : Bind(p)
    \/ \E p \in Procs : PrintStartup(p)
    \/ \E c \in Conns : Connect(c)
    \/ \E p \in Procs : Accept(p)
    \/ \E c \in Conns : Handle(c)
    \/ \E p \in Procs, c \in Conns : Finish(p, c)
    \/ \E p \in Procs : Interrupt(p)
    \/ \E p \in Procs : PrintStopped(p)
    \/ \E p \in Procs : Close(p)

Spec == Init /\ [][Next]_vars

\* one instance serving one client at a time, for every request of Requests
NextRequests ==
    \/ Start("first")
    \/ Chdir("first")
    \/ Bind("first")
    \/ PrintStartup("first")
    \/ Connect(1)
    \/ Accept("first")
    \/ HandleAny(1)
    \/ Finish("first", 1)

SpecRequests == Init /\ [][NextRequests]_vars

\* one instance serving one client at a time, for every generated path
NextPaths ==
    \/ Start("first")
    \/ Chdir("first")
    \/ Bind("first")
    \/ PrintStartup("first")
    \/ Connect(1)
    \/ Accept("first")
    \/ HandlePath(1)
    \/ Finish("first", 1)

SpecPaths == Init /\ [][NextPaths]_vars

(***************************************************************************)
(* Vocabulary of the properties.                                           *)
(***************************************************************************)
\* the requests handled and not yet discarded, with their replies
Handled == { ctx[c] : c \in { d \in Conns : hstate[d] = "responded" } }

\* the header table of the specification
FixedHeaders ==
    { <<"Access-Control-Allow-Origin", "*">>,
      <<"Access-Control-Allow-Methods", "GET, POST, OPTIONS">>,
      <<"Access-Control-Allow-Headers", "Content-Type">>,
      <<"Cross-Origin-Embedder-Policy", "require-corp">>,
      <<"Cross-Origin-Opener-Policy", "same-origin">> }

HeaderSet(cx) == { cx.headers[i] : i \in 1..Len(cx.headers) }

\* all five headers, and no other value under any of the five names
CarriesFixedHeaders(cx) ==
    /\ FixedHeaders \subseteq HeaderSet(cx)
    /\ \A kv \in HeaderSet(cx) :
          (\E fx \in FixedHeaders : fx[1] = kv[1]) => kv \in FixedHeaders

\* the server sent something back
Answered(cx) == ~cx.raised /\ (cx.status # 0 \/ cx.body.kind # "none")

\* the request line has a method and a path
HasTarget(req) == ~req.oversize /\ Len(req.line) >= 2

Method(req) == req.line[1]

UrlPath(req) == req.line[2]

\* the request line ends in a version word HTTP/x.y, x.y below 2.0 and not 0.9
SpeaksHttp1(line) ==
    /\ Len(line) >= 3
    /\ ValidVersion(Last(line))
    /\ VersionNumber(Last(line))[1] < 2
    /\ Last(line) # HTTP09

\* method, path and such a version, and a header block within the limits
WellFormed(req) ==
    /\ ~req.oversize
    /\ Len(req.line) = 3
    /\ SpeaksHttp1(req.line)
    /\ req.hdrs.overflow = "none"

\* the file system node the request's path names under the root
Target(req) == Resolve(translate_path(UrlPath(req)))

\* the conditional request send_head answers 304
NotModified(req) ==
    req.hdrs.hasIms /\ ~req.hdrs.inm /\ Target(req).mtime <= req.hdrs.ims

ContentTypes(cx) ==
    { kv[2] : kv \in { h \in HeaderSet(cx) : h[1] \in {"Content-type", "Content-Type"} } }

NamesJavaScript(req) ==
    LET t == translate_path(UrlPath(req))
    IN  Len(t) >= 2 /\ SubSeq(t, Len(t) - 1, Len(t)) = <<".", "js">>

\* status 200, the file's bytes, a Content-Type (a JavaScript one for .js)
ServesFile(cx) ==
    /\ cx.status = 200
    /\ cx.body = FileBody(Target(cx.req).data)
    /\ ContentTypes(cx) # {}
    /\ NamesJavaScript(cx.req) =>
          ContentTypes(cx) \subseteq {"text/javascript", "application/javascript"}

\* the same request with GET for its method
AsGet(req) == [req EXCEPT !.line[1] = GET]

\* status and headers of the GET for the same path, and no body
MirrorsGet(cx) ==
    /\ cx.status = Context(AsGet(cx.req)).status
    /\ cx.headers = Context(AsGet(cx.req)).headers
    /\ cx.body = NoBody

(***************************************************************************)
(* C1                                                                      *)
(***************************************************************************)
\* C1 as stated: every reply the server sends, whatever the method, path and
\* status, replies to malformed request lines included, carries the five
\* fixed headers with exactly the specified values.
C1_EveryReplyCarriesFixedHeaders ==
    \A cx \in Handled : Answered(cx) => CarriesFixedHeaders(cx)

\* C1 amended: every reply to a request whose line is longer than 65536
\* bytes, or ends in a version word HTTP/x.y (x.y below 2.0, not 0.9) after
\* two or more words, carries the five fixed headers with exactly the
\* specified values, whatever the method, path and status.
C1_VersionedReplyCarriesFixedHeaders ==
    \A cx \in Handled :
        (Answered(cx) /\ (cx.req.oversize \/ SpeaksHttp1(cx.req.line)))
            => CarriesFixedHeaders(cx)

\* an error reply to a malformed request line that carries the headers
C1_Witness ==
    \E cx \in Handled :
        /\ Len(cx.req.line) = 4
        /\ cx.status = 400
        /\ CarriesFixedHeaders(cx)

(***************************************************************************)
(* C2                                                                      *)
(***************************************************************************)
\* C2 as stated: an OPTIONS request for any path gets status 200, an empty
\* body and the five fixed headers, whether the path exists or not, and the
\* file system is not read.
C2_OptionsAlways200 ==
    \A cx \in Handled :
        (HasTarget(cx.req) /\ Method(cx.req) = OPTIONS /\ ~cx.raised)
            => /\ cx.status = 200
               /\ cx.body = NoBody
               /\ CarriesFixedHeaders(cx)
               /\ cx.touched = {}

\* C2 amended: an OPTIONS request with a request line OPTIONS <path>
\* HTTP/x.y (x.y below 2.0, not 0.9) and a header block within the parser's
\* limits gets status 200, an empty body and the five fixed headers, whether
\* the path exists or not, and the file system is not read.
C2_WellFormedOptions200 ==
    \A cx \in Handled :
        (WellFormed(cx.req) /\ Method(cx.req) = OPTIONS /\ ~cx.raised)
            => /\ cx.status = 200
               /\ cx.body = NoBody
               /\ CarriesFixedHeaders(cx)
               /\ cx.touched = {}

\* a preflight for a path that does not exist, answered 200
C2_Witness ==
    \E cx \in Handled :
        /\ WellFormed(cx.req)
        /\ Method(cx.req) = OPTIONS
        /\ Target(cx.req).kind = "none"
        /\ cx.status = 200
        /\ CarriesFixedHeaders(cx)

(***************************************************************************)
(* C3                                                                      *)
(***************************************************************************)
\* C3 as stated: a GET for a path that does not exist under the root gets
\* status 404, and the 404 carries the five fixed headers.
C3_MissingPath404 ==
    \A cx \in Handled :
        (/\ HasTarget(cx.req)
         /\ Method(cx.req) = GET
         /\ Target(cx.req).kind = "none"
         /\ ~cx.raised)
            => cx.status = 404 /\ CarriesFixedHeaders(cx)

\* C3 amended: a GET with a request line GET <path> HTTP/x.y (x.y below
\* 2.0, not 0.9) and a header block within the parser's limits, for a path
\* that does not exist under the root, gets status 404 with the five fixed
\* headers.
C3_WellFormedMissingPath404 ==
    \A cx \in Handled :
        (/\ WellFormed(cx.req)
         /\ Method(cx.req) = GET
         /\ Target(cx.req).kind = "none"
         /\ ~cx.raised)
            => cx.status = 404 /\ CarriesFixedHeaders(cx)

\* a 404 with the headers, for a GET of a missing path
C3_Witness ==
    \E cx \in Handled :
        /\ WellFormed(cx.req)
        /\ Method(cx.req) = GET
        /\ Target(cx.req).kind = "none"
        /\ cx.status = 404
        /\ cx.body.kind = "error"
        /\ CarriesFixedHeaders(cx)

(***************************************************************************)
(* C8                                                                      *)
(***************************************************************************)
\* C8 as stated: a GET for a path naming a regular file under the root gets
\* status 200, the file's bytes and a Content-Type inferred from the
\* extension (a JavaScript type for .js); a HEAD for the same path gets the
\* same status and headers and no body.
C8_ExistingFile200 ==
    \A cx \in Handled :
        (HasTarget(cx.req) /\ Target(cx.req).kind = "file" /\ ~cx.raised)
            => /\ Method(cx.req) = GET => ServesFile(cx)
               /\ Method(cx.req) = HEAD =>
                      (cx.status = 200 /\ MirrorsGet(cx))

\* C8 amended: a GET with a request line GET <path> HTTP/x.y (x.y below
\* 2.0, not 0.9) and a header block within the parser's limits, for a path
\* naming a readable regular file under the root, gets status 200, the
\* file's bytes and a Content-Type inferred from the extension (a
\* JavaScript type for .js), unless it carries an If-Modified-Since date not
\* before the file's modification time and no If-None-Match; a HEAD for the
\* same path gets the same status and headers and no body.
C8_WellFormedReadableFile200 ==
    \A cx \in Handled :
        (/\ WellFormed(cx.req)
         /\ Target(cx.req).kind = "file"
         /\ Target(cx.req).perm
         /\ ~NotModified(cx.req)
         /\ ~cx.raised)
            => /\ Method(cx.req) = GET => ServesFile(cx)
               /\ Method(cx.req) = HEAD =>
                      (cx.status = 200 /\ MirrorsGet(cx))

\* the JavaScript file served with its bytes and a JavaScript type
C8_Witness ==
    \E cx \in Handled :
        /\ WellFormed(cx.req)
        /\ Method(cx.req) = GET
        /\ NamesJavaScript(cx.req)
        /\ cx.status = 200
        /\ cx.body = FileBody("root:/app.js")
        /\ ContentTypes(cx) = {"text/javascript"}

(***************************************************************************)
(* C9                                                                      *)
(***************************************************************************)
\* the serve loop of the listening process is where it was
ServerUntouched ==
    \E p \in listeners : pc[p] \in ServePcs /\ stdout[p] = StartupLines

\* C9 as stated: a request whose method is none of GET, HEAD and OPTIONS
\* (POST included) gets the base handler's 501, changes nothing in the
\* server, and the 501 carries the five fixed headers.
C9_OtherMethods501 ==
    \A cx \in Handled :
        (/\ HasTarget(cx.req)
         /\ Method(cx.req) \notin {GET, HEAD, OPTIONS}
         /\ ~cx.raised)
            => /\ cx.status = 501
               /\ CarriesFixedHeaders(cx)
               /\ cx.touched = {}
               /\ ServerUntouched

\* C9 amended: a request with a request line <method> <path> HTTP/x.y (x.y
\* below 2.0, not 0.9) and a header block within the parser's limits, whose
\* method is none of GET, HEAD and OPTIONS (POST included), gets the base
\* handler's 501, changes nothing in the server, and the 501 carries the
\* five fixed headers.
C9_WellFormedOtherMethods501 ==
    \A cx \in Handled :
        (/\ WellFormed(cx.req)
         /\ Method(cx.req) \notin {GET, HEAD, OPTIONS}
         /\ ~cx.raised)
            => /\ cx.status = 501
               /\ CarriesFixedHeaders(cx)
               /\ cx.touched = {}
               /\ ServerUntouched

\* a POST answered 501 with the headers
C9_Witness ==
    \E cx \in Handled :
        /\ WellFormed(cx.req)
        /\ Method(cx.req) = POST
        /\ cx.status = 501
        /\ CarriesFixedHeaders(cx)

(***************************************************************************)
(* C4                                                                      *)
(***************************************************************************)
\* the components of a request path: query and fragment dropped, escapes
\* decoded, split at the slashes
Segments(urlpath) ==
    FilterNonEmpty(SplitOn(unquote(TakeUntil(TakeUntil(urlpath, "?"), "#")), "/"))

RECURSIVE ClimbsAbove(_, _)
\* read from depth levels below the root, the components leave the root
ClimbsAbove(comps, depth) ==
    IF comps = <<>> THEN FALSE
    ELSE IF Head(comps) = <<".", ".">>
       THEN depth = 0 \/ ClimbsAbove(Tail(comps), depth - 1)
    ELSE IF Head(comps) = <<".">> THEN ClimbsAbove(Tail(comps), depth)
    ELSE ClimbsAbove(Tail(comps), depth + 1)

\* the request path tries to leave the served root
Escapes(urlpath) == ClimbsAbove(Segments(urlpath), 0)

RECURSIVE Clamp(_, _)
\* the components read with the root as the top of the file system
Clamp(comps, acc) ==
    IF comps = <<>> THEN acc
    ELSE IF Head(comps) = <<".", ".">>
       THEN Clamp(Tail(comps), IF acc = <<>> THEN acc ELSE ButLast(acc))
    ELSE IF Head(comps) = <<".">> THEN Clamp(Tail(comps), acc)
    ELSE Clamp(Tail(comps), Append(acc, Head(comps)))

\* the node under the root that the clamped path names
ClampedNode(urlpath) == NodeAt(<< <<"r">> >> \o Clamp(Segments(urlpath), <<>>))

\* the contents of the files that are not under the root
OutsideData ==
    { n.data : n \in { m \in FSNodes :
                          m.kind = "file" /\ (m.at = <<>> \/ m.at[1] # <<"r">>) } }

\* a path given to the kernel that stays under the root whatever the kernel
\* makes of it: the root, then names other than "." and ".."
UnderRoot(path) ==
    LET comps == FilterNonEmpty(SplitOn(path, "/"))
    IN  /\ StartsWith(path, <<"/">>)
        /\ comps # <<>>
        /\ comps[1] = <<"r">>
        /\ \A i \in 1..Len(comps) : comps[i] \notin {<<".">>, <<".", ".">>}

\* C4 as stated: the handler serves no content from outside the root, and
\* a request whose path tries to traverse above the root is answered 404
\* or 403.
C4_TraversalRefused ==
    \A cx \in Handled :
        /\ cx.body.data \notin OutsideData
        /\ Escapes(UrlPath(cx.req)) => cx.status \in {403, 404}

\* C4 amended: the handler serves no content from outside the root and
\* opens no path outside it (symbolic links aside); a request path is read
\* with the root as the top of the file system, the ".." components that
\* would climb above it being dropped, and is answered 404 when the path so
\* read names nothing under the root, with the file when it names a
\* readable one, and never 403.
C4_TraversalClamped ==
    \A cx \in Handled :
        /\ cx.body.data \notin OutsideData
        /\ \A t \in cx.touched : UnderRoot(t)
        /\ cx.status \in {200, 301, 404}
        /\ ClampedNode(UrlPath(cx.req)).kind = "none" => cx.status = 404
        /\ (/\ ClampedNode(UrlPath(cx.req)).kind = "file"
            /\ ClampedNode(UrlPath(cx.req)).perm
            /\ ~EndsWith(TakeUntil(TakeUntil(UrlPath(cx.req), "?"), "#"), "/"))
               => /\ cx.status = 200
                  /\ Method(cx.req) = GET
                        => cx.body = FileBody(ClampedNode(UrlPath(cx.req)).data)

\* a path that climbs above the root (where a file a exists too) answered
\* with the root's own file a
C4_Witness ==
    \E cx \in Handled :
        /\ Escapes(UrlPath(cx.req))
        /\ Method(cx.req) = GET
        /\ cx.status = 200
        /\ cx.body = FileBody("root:/a")
        /\ \A t \in cx.touched : UnderRoot(t)

(***************************************************************************)
(* C5                                                                      *)
(***************************************************************************)
\* C5: an interrupt signal delivered at any time after the server has bound
\* its socket makes the server stop, print the stopped message and exit
\* with status 0.
C5_InterruptAfterBindExitsZero ==
    \A p \in Procs :
        (sigintAt[p] \in BoundPcs \ {"except", "closing"} /\ pc[p] = "exited")
            => /\ exitStatus[p] = 0
               /\ \E i \in 1..Len(stdout[p]) : stdout[p][i] = StoppedLine

(***************************************************************************)
(* C6                                                                      *)
(***************************************************************************)
\* C6: an instance started while another one holds the port fails at bind:
\* it ends with a non-zero status without having printed a startup line,
\* and the first instance, its socket, its queue and its requests are left
\* as they were.
C6_SecondInstanceFailsAtBind ==
    [][ \A p \in Procs :
           (/\ pc[p] = "bind"
            /\ listeners # {}
            /\ pc'[p] # "bind"
            /\ sigintAt'[p] = "never")
               => /\ pc'[p] = "exited"
                  /\ exitStatus'[p] \notin {0, Running}
                  /\ stdout'[p] = <<>>
                  /\ listeners' = listeners
                  /\ \A q \in Procs \ {p} :
                        /\ pc'[q] = pc[q]
                        /\ stdout'[q] = stdout[q]
                        /\ exitStatus'[q] = exitStatus[q]
                  /\ backlog' = backlog
                  /\ hstate' = hstate
                  /\ ctx' = ctx ]_vars

\* the second instance has failed and the first one goes on answering
C6_Witness ==
    \E p \in Procs :
        /\ pc[p] = "exited"
        /\ exitStatus[p] = 1
        /\ stdout[p] = <<>>
        /\ sigintAt[p] = "never"
        /\ \E q \in listeners :
              /\ q # p
              /\ pc[q] = "busy"
              /\ \E cx \in Handled : cx.status = 200

(***************************************************************************)
(* C7                                                                      *)
(***************************************************************************)
\* C7: no error of a request (a missing file, a bad request, an exception
\* of the handler) ends the serve loop: an instance that has entered the
\* loop and has not been interrupted is in the loop, holds its socket and
\* has not exited.
C7_RequestErrorsLeaveLoopRunning ==
    \A p \in Procs :
        (Len(stdout[p]) >= Len(StartupLines) /\ sigintAt[p] = "never")
            => /\ pc[p] \in ServePcs
               /\ p \in listeners
               /\ exitStatus[p] = Running

\* after requests that failed in each way, the one instance there ever was
\* serves a file
C7_Witness ==
    \E p \in listeners :
        /\ failures = {"raised", "error", "silent"}
        /\ \A q \in Procs \ {p} : pc[q] = "off"
        /\ sigintAt[p] = "never"
        /\ pc[p] = "busy"
        /\ \E cx \in Handled : cx.status = 200 /\ cx.body.kind = "file"

(***************************************************************************)
(* C10                                                                     *)
(***************************************************************************)
\* the connections whose request is being handled
InHand == { c \in Conns : hstate[c] \in {"handling", "responded"} }

\* C10: requests are handled strictly one at a time: at most one connection
\* is in the handler, and while one is the serve loop accepts no other.
C10_OneRequestAtATime ==
    /\ Cardinality(InHand) <= 1
    /\ InHand # {} => \A p \in listeners : pc[p] = "busy"

\* one request in the handler while another connection waits in the backlog
C10_Witness ==
    /\ Cardinality(InHand) = 1
    /\ backlog # <<>>
    /\ \E c \in Conns : hstate[c] = "queued"

====
